---- MODULE Spec2Model ----
(***************************************************************************)
(* A model of wtmpdb's command line tool (src/src/wtmpdb.c): the "last"    *)
(* report pass (main_last, print_entry), the boot and shutdown writers     *)
(* (main_boot, main_shutdown) and the command dispatch of main.            *)
(*                                                                         *)
(* C strings are tuples of one-character strings, so that printf's         *)
(* truncation and padding and strtoll's parsing are computed character by  *)
(* character.  A NULL char pointer is the value NULL.                      *)
(***************************************************************************)
EXTENDS Integers, Sequences, FiniteSets, TLC

VARIABLES
  db,           \* the databases, by path: the rows of table wtmp, by ID
  wtmpdb_path,  \* static char *wtmpdb_path of the current process
  pc,           \* "init": no process has run; "read_all": a "last" process
                \* is inside wtmpdb_read_all; "exited": the process has ended
  argv,         \* argv[1..] of the current (or most recent) process
  rows,         \* what wtmpdb_read_all delivers to print_entry, in order
  idx,          \* how many of them print_entry has been called for
  out,          \* the entry lines the process has printed
  summary,      \* the "begins" line of main_last: <<>>, or <<t>> for the
                \* time_t value t it formats
  after_reboot, \* static int after_reboot
  wtmp_start,   \* static int64_t wtmp_start
  status,       \* the exit status of the most recent process
  calls,        \* the library calls the process has made, in order, each
                \* with what it returned
  time,         \* int64_t time of main_boot and main_shutdown: the clock
                \* as the process read it (0 when it did not)
  pre,          \* db as the process found it
  err,          \* the "Invalid numeric time entry" warnings on stderr
  errno         \* errno of the process, as strtoll leaves it

vars == <<db, wtmpdb_path, pc, argv, rows, idx, out, summary, after_reboot,
          wtmp_start, status, calls, time, pre, err, errno>>

----------------------------------------------------------------------------
(* Constants of the program and of its headers.                            *)

EXIT_SUCCESS == 0
EXIT_FAILURE == 1
\* wtmpdb.h
BOOT_TIME == 1
RUNLEVEL == 2
USER_PROCESS == 3
USEC_PER_SEC == 1000000
\* wtmpdb.c
TIMEFMT_CTIME == 1
TIMEFMT_SHORT == 2
TIMEFMT_HHMM == 3
\* errno.h
ERANGE == 34

NULL == <<"NULL">>

----------------------------------------------------------------------------
(* 64 bit integers.  An int64_t value is a sign and a magnitude, the       *)
(* magnitude being its decimal digits, most significant first, without     *)
(* leading zeros (zero is the empty magnitude): microsecond time stamps    *)
(* and INT64_MAX do not fit the model checker's own integers.  A C int     *)
(* (type, mins, hours, days) is a plain integer.                           *)

RECURSIVE Strip(_)
Strip(m) == IF m # <<>> /\ m[1] = 0 THEN Strip(Tail(m)) ELSE m

Front(m) == SubSeq(m, 1, Len(m) - 1)
Last(m) == m[Len(m)]

RECURSIVE MagOfInt(_)
MagOfInt(n) == IF n = 0 THEN <<>> ELSE MagOfInt(n \div 10) \o <<n % 10>>

RECURSIVE MagToInt(_)
MagToInt(m) == IF m = <<>> THEN 0 ELSE MagToInt(Front(m)) * 10 + Last(m)

MagLess(a, b) ==
  \/ Len(a) < Len(b)
  \/ /\ Len(a) = Len(b)
     /\ \E i \in 1..Len(a) : a[i] < b[i] /\ \A j \in 1..(i - 1) : a[j] = b[j]

RECURSIVE MagAddC(_, _, _)
MagAddC(a, b, c) ==
  IF a = <<>> /\ b = <<>> THEN (IF c = 0 THEN <<>> ELSE <<c>>)
  ELSE LET x == IF a = <<>> THEN 0 ELSE Last(a)
           y == IF b = <<>> THEN 0 ELSE Last(b)
           t == x + y + c
       IN  MagAddC(IF a = <<>> THEN a ELSE Front(a),
                   IF b = <<>> THEN b ELSE Front(b), t \div 10) \o <<t % 10>>

MagAdd(a, b) == MagAddC(a, b, 0)

\* a - b for a >= b, digit by digit with a borrow.
RECURSIVE MagSubB(_, _, _)
MagSubB(a, b, c) ==
  IF a = <<>> THEN <<>>
  ELSE LET y == IF b = <<>> THEN 0 ELSE Last(b)
           t == Last(a) - y - c
       IN  MagSubB(Front(a), IF b = <<>> THEN b ELSE Front(b),
                   IF t < 0 THEN 1 ELSE 0)
             \o <<IF t < 0 THEN t + 10 ELSE t>>

MagSub(a, b) == Strip(MagSubB(a, b, 0))

\* Long division of the magnitude m by d > 0 from digit i on, with the
\* remainder rem and the quotient digits q so far.
RECURSIVE MagDivStep(_, _, _, _, _)
MagDivStep(m, d, i, rem, q) ==
  IF i > Len(m) THEN [q |-> Strip(q), r |-> rem]
  ELSE LET cur == rem * 10 + m[i]
       IN  MagDivStep(m, d, i + 1, cur % d, Append(q, cur \div d))

MagDiv(m, d) == MagDivStep(m, d, 1, 0, <<>>)

Z(neg, mag) == [neg |-> neg /\ mag # <<>>, mag |-> mag]

ZOfInt(n) == IF n < 0 THEN Z(TRUE, MagOfInt(-n)) ELSE Z(FALSE, MagOfInt(n))

\* The C int a small int64_t value converts to.
ZToInt(z) == IF z.neg THEN -MagToInt(z.mag) ELSE MagToInt(z.mag)

ZNeg(z) == Z(~z.neg, z.mag)

ZLess(a, b) ==
  IF a.neg # b.neg THEN a.neg
  ELSE IF a.neg THEN MagLess(b.mag, a.mag) ELSE MagLess(a.mag, b.mag)

ZLeq(a, b) == a = b \/ ZLess(a, b)

ZAdd(a, b) ==
  IF a.neg = b.neg THEN Z(a.neg, MagAdd(a.mag, b.mag))
  ELSE IF MagLess(a.mag, b.mag) THEN Z(b.neg, MagSub(b.mag, a.mag))
  ELSE Z(a.neg, MagSub(a.mag, b.mag))

\* The mathematical difference; int64_t's own subtraction is Sub64.
ZSub(a, b) == ZAdd(a, ZNeg(b))

\* C's / and % by a positive int: the quotient is truncated toward zero and
\* the remainder has the sign of the dividend.
ZDiv(z, d) == Z(z.neg, MagDiv(z.mag, d).q)

ZMod(z, d) == IF z.neg THEN -(MagDiv(z.mag, d).r) ELSE MagDiv(z.mag, d).r

\* sec seconds and usec microseconds (0 <= usec < USEC_PER_SEC) in
\* microseconds, as wtmpdb_timespec2usec computes it.
Usec(sec, usec) ==
  LET u == MagOfInt(usec)
      pad == [i \in 1..(6 - Len(u)) |-> 0]
  IN  Z(FALSE, Strip(MagOfInt(sec) \o pad \o u))

INT64_MAX ==
  Z(FALSE, <<9, 2, 2, 3, 3, 7, 2, 0, 3, 6, 8, 5, 4, 7, 7, 5, 8, 0, 7>>)
INT64_MIN ==
  Z(TRUE, <<9, 2, 2, 3, 3, 7, 2, 0, 3, 6, 8, 5, 4, 7, 7, 5, 8, 0, 8>>)
TwoTo64 ==
  Z(FALSE, <<1, 8, 4, 4, 6, 7, 4, 4, 0, 7, 3, 7, 0, 9, 5, 5, 1, 6, 1, 6>>)

In64(z) == ZLeq(INT64_MIN, z) /\ ZLeq(z, INT64_MAX)

\* z reduced to the 64 bit two's complement range, for z within 2^64 of it.
Wrap64(z) ==
  IF ZLess(INT64_MAX, z) THEN ZSub(z, TwoTo64)
  ELSE IF ZLess(z, INT64_MIN) THEN ZAdd(z, TwoTo64)
  ELSE z

----------------------------------------------------------------------------
(* C text.                                                                 *)

Digits == <<"0", "1", "2", "3", "4", "5", "6", "7", "8", "9">>

IsDigit(c) == \E d \in 1..10 : Digits[d] = c

DigitVal(c) == (CHOOSE d \in 1..10 : Digits[d] = c) - 1

IsSpace(c) == c = " "

\* The characters of a magnitude; "0" for zero.
MagText(m) ==
  IF m = <<>> THEN <<"0">> ELSE [i \in 1..Len(m) |-> Digits[m[i] + 1]]

\* printf's %d of an int and %lld of an int64_t.
FmtD(n) ==
  IF n < 0 THEN <<"-">> \o MagText(MagOfInt(-n)) ELSE MagText(MagOfInt(n))

FmtZ(z) == IF z.neg THEN <<"-">> \o MagText(z.mag) ELSE MagText(z.mag)

\* printf's %02d: zeros up to a width of two, the sign counting toward it.
Fmt02(n) ==
  LET t == FmtD(n)
  IN  IF Len(t) >= 2 THEN t
      ELSE IF n < 0 THEN <<"-", "0">> \o Tail(t)
      ELSE <<"0">> \o t

\* printf's %-W.Ps: at most P characters of s, then spaces up to width W.
FmtS(s, width, prec) ==
  LET t == IF Len(s) > prec THEN SubSeq(s, 1, prec) ELSE s
  IN  t \o [i \in 1..(width - Len(t)) |-> " "]

\* The digits of s from position i on, appended to the magnitude m, and the
\* position of the first character that is not a digit.
RECURSIVE ScanDigits(_, _, _)
ScanDigits(s, i, m) ==
  IF i <= Len(s) /\ IsDigit(s[i])
  THEN ScanDigits(s, i + 1, Append(m, DigitVal(s[i])))
  ELSE [mag |-> Strip(m), end |-> i]

RECURSIVE SkipSpace(_, _)
SkipSpace(s, i) ==
  IF i <= Len(s) /\ IsSpace(s[i]) THEN SkipSpace(s, i + 1) ELSE i

\* strtoll (s, &endptr, 10): white space, an optional sign, digits.  end is
\* the position endptr points at (Len(s) + 1 is the terminating '\0'; 1 is
\* s itself, when no digit was found); erange is errno being set to ERANGE.
strtoll(s) ==
  LET i == SkipSpace(s, 1)
      signed == i <= Len(s) /\ s[i] \in {"-", "+"}
      neg == signed /\ s[i] = "-"
      j == IF signed THEN i + 1 ELSE i
      d == ScanDigits(s, j, <<>>)
      v == Z(neg, d.mag)
  IN  IF d.end = j THEN [val |-> Z(FALSE, <<>>), end |-> 1, erange |-> FALSE]
      ELSE IF ZLess(INT64_MAX, v)
      THEN [val |-> INT64_MAX, end |-> d.end, erange |-> TRUE]
      ELSE IF ZLess(v, INT64_MIN)
      THEN [val |-> INT64_MIN, end |-> d.end, erange |-> TRUE]
      ELSE [val |-> v, end |-> d.end, erange |-> FALSE]

\* atoi (s): the int strtol's value converts to, without the error report.
atoi(s) == ZToInt(strtoll(s).val)

\* The text sqlite3_exec delivers for an integer column.
Itoa(z) == FmtZ(z)

----------------------------------------------------------------------------
(* Rows of the database and what wtmpdb_read_all hands to its callback.    *)

\* A row of table wtmp; its ID is its position in the database.  Login and
\* Logout hold the text sqlite3_exec delivers for them; Logout, RemoteHost and
\* Service may be NULL.
Row(type, user, login, logout, tty, host, service) ==
  [type |-> type, user |-> user, login |-> login, logout |-> logout,
   tty |-> tty, host |-> host, service |-> service]

\* The columns of row id as print_entry receives them in argv:
\* ID, Type, User, LoginTime, LogoutTime, TTY, RemoteHost, Service.
Columns(id, r) ==
  <<Itoa(ZOfInt(id)), Itoa(ZOfInt(r.type)), r.user, r.login, r.logout,
    r.tty, r.host, r.service>>

\* argv[k] of the callback, counted from 0 as in C.
Arg(a, k) == a[k + 1]

----------------------------------------------------------------------------
(* print_entry.                                                            *)

\* format_time (fmt, dst, dstlen, t) fills dst with the calendar text of t
\* in the process's time zone.  The text itself is libc's; a buffer filled
\* this way is recorded by the format and the time_t value passed.
format_time(fmt, t) == [fmt |-> fmt, t |-> t, text |-> <<>>]

\* The time_t values whose year ctime's "%d" prints in at most four
\* characters, -999 to 9999 (in UTC; the time zone moves them by hours).
\* For other years the behaviour of ctime (asctime) is undefined.
CTIME_MIN == Z(TRUE, <<9, 3, 6, 9, 2, 5, 9, 2, 0, 0, 0>>)
CTIME_MAX == Z(FALSE, <<2, 5, 3, 4, 0, 2, 3, 0, 0, 7, 9, 9>>)

\* format_time (TIMEFMT_CTIME, dst, dstlen, t): where ctime is undefined a
\* libc either prints the longer year (its buffer has the room) or ends the
\* process; ok = FALSE is the latter.  time_t has 64 bits.
format_ctime(t) ==
  IF ZLeq(CTIME_MIN, t) /\ ZLeq(t, CTIME_MAX)
  THEN {[ok |-> TRUE, buf |-> format_time(TIMEFMT_CTIME, t)]}
  ELSE {[ok |-> TRUE, buf |-> format_time(TIMEFMT_CTIME, t)],
        [ok |-> FALSE, buf |-> format_time(TIMEFMT_CTIME, t)]}

\* A buffer filled by snprintf (dst, sizeof (dst), "<text>").
snprintf(text) == [fmt |-> 0, t |-> Z(FALSE, <<>>), text |-> text]

\* printf's %-W.Ps of a buffer: strftime's "%a %b %e %H:%M" and "%H:%M" are
\* W characters as they are.
FmtBuf(buf, width, prec) ==
  IF buf.fmt = 0 THEN [buf EXCEPT !.text = FmtS(buf.text, width, prec)]
  ELSE buf

s_crash == <<"c", "r", "a", "s", "h">>
s_still == <<"s", "t", "i", "l", "l">>
s_ERROR == <<"E", "R", "R", "O", "R">>
s_logged_in == <<"l", "o", "g", "g", "e", "d", " ", "i", "n">>
s_running == <<"r", "u", "n", "n", "i", "n", "g">>
s_Unknown == <<"U", "n", "k", "n", "o", "w", "n", ":", " ">>
s_system_boot == <<"s", "y", "s", "t", "e", "m", " ", "b", "o", "o", "t">>
s_reboot == <<"r", "e", "b", "o", "o", "t">>
s_tilde == <<"~">>

name_len == 8
login_len == 16
logout_len == 5
host_len == 16

\* The outcomes of the int64_t subtraction a - b.  Signed overflow is
\* undefined: a build either wraps (the plain machine subtraction) or, with
\* -ftrapv, aborts; ok = FALSE is the abort.
Sub64(a, b) ==
  IF In64(ZSub(a, b)) THEN {[ok |-> TRUE, val |-> ZSub(a, b)]}
  ELSE {[ok |-> TRUE, val |-> Wrap64(ZSub(a, b))],
        [ok |-> FALSE, val |-> Z(FALSE, <<>>)]}

mins(secs) == ZMod(ZDiv(secs, 60), 60)
hours(secs) == ZMod(ZDiv(secs, 3600), 24)
days(secs) == ZToInt(ZDiv(secs, 86400))

\* The three snprintf calls that fill char length[32] for a closed entry.
length_closed(secs) ==
  IF days(secs) # 0
  THEN <<"(">> \o FmtD(days(secs)) \o <<"+">> \o Fmt02(hours(secs))
         \o <<":">> \o Fmt02(mins(secs)) \o <<")">>
  ELSE IF hours(secs) # 0
  THEN <<" ", "(">> \o Fmt02(hours(secs)) \o <<":">> \o Fmt02(mins(secs))
         \o <<")">>
  ELSE <<" ", "(", "0", "0", ":">> \o Fmt02(mins(secs)) \o <<")">>

\* open_status that prints a type it does not know as a session.
open_status_no_default(type, ar) ==
  IF ar # 0
  THEN [logouttime |-> snprintf(s_crash), length |-> <<>>]
  ELSE IF type = BOOT_TIME
  THEN [logouttime |-> snprintf(s_still), length |-> s_running]
  ELSE [logouttime |-> snprintf(s_still), length |-> s_logged_in]

\* open_status that looks at the type before it looks at after_reboot.
open_status_type_first(type, ar) ==
  IF type = USER_PROCESS
  THEN [logouttime |-> snprintf(s_still), length |-> s_logged_in]
  ELSE IF type = BOOT_TIME
  THEN [logouttime |-> snprintf(s_still), length |-> s_running]
  ELSE IF ar # 0
  THEN [logouttime |-> snprintf(s_crash), length |-> <<>>]
  ELSE [logouttime |-> snprintf(s_ERROR), length |-> s_Unknown \o FmtD(type)]

\* logouttime and length of an entry with no logout time.
open_status(type, ar) ==
  IF ar # 0
  THEN [logouttime |-> snprintf(s_crash), length |-> <<>>]
  ELSE IF type = USER_PROCESS
  THEN [logouttime |-> snprintf(s_still), length |-> s_logged_in]
  ELSE IF type = BOOT_TIME
  THEN [logouttime |-> snprintf(s_still), length |-> s_running]
  ELSE [logouttime |-> snprintf(s_ERROR), length |-> s_Unknown \o FmtD(type)]

\* boot_override in which a boot row turns after_reboot over.
boot_override_toggle(type, tty, ar) ==
  IF type = BOOT_TIME THEN [tty |-> s_system_boot, after_reboot |-> 1 - ar]
  ELSE [tty |-> tty, after_reboot |-> ar]

\* boot_override with the assignment to after_reboot left out.
boot_override_no_flag(type, tty, ar) ==
  IF type = BOOT_TIME THEN [tty |-> s_system_boot, after_reboot |-> ar]
  ELSE [tty |-> tty, after_reboot |-> ar]

\* boot_override that replaces the tty only where it is the "~" of a boot.
boot_override_tilde_only(type, tty, ar) ==
  IF type = BOOT_TIME
  THEN [tty |-> IF tty = s_tilde THEN s_system_boot ELSE tty,
        after_reboot |-> 1]
  ELSE [tty |-> tty, after_reboot |-> ar]

\* The tty print_entry prints and the value it leaves in after_reboot.
boot_override(type, tty, ar) ==
  IF type = BOOT_TIME THEN [tty |-> s_system_boot, after_reboot |-> 1]
  ELSE [tty |-> tty, after_reboot |-> ar]

\* start_update with the comparison turned around.
start_update_greater(login_t, ws) == IF ZLess(ws, login_t) THEN login_t ELSE ws

\* The running minimum of the login times.
start_update(login_t, ws) == IF ZLess(login_t, ws) THEN login_t ELSE ws

\* One call print_entry (NULL, 8, a, names) with after_reboot = ar and
\* wtmp_start = ws, where diff is the value of (logout_t - login_t) for a
\* closed entry: the line printed and the new values of the two statics.
print_entry(a, ar, ws, diff) ==
  LET type == atoi(Arg(a, 1))
      user == Arg(a, 2)
      host == IF Arg(a, 6) # NULL THEN Arg(a, 6) ELSE <<>>
      login == strtoll(Arg(a, 3))
      login_t == login.val
      logintime == format_time(TIMEFMT_SHORT, ZDiv(login_t, USEC_PER_SEC))
      st == IF Arg(a, 4) # NULL
            THEN [logouttime |->
                    format_time(TIMEFMT_HHMM,
                                ZDiv(strtoll(Arg(a, 4)).val, USEC_PER_SEC)),
                  length |-> length_closed(ZDiv(diff, USEC_PER_SEC))]
            ELSE open_status(type, ar)
      bo == boot_override(type, Arg(a, 5), ar)
  IN  [line |-> [user |-> FmtS(user, name_len, name_len),
                 tty |-> FmtS(bo.tty, 12, 12),
                 host |-> FmtS(host, host_len, host_len),
                 logintime |-> FmtBuf(logintime, login_len, login_len),
                 logouttime |-> FmtBuf(st.logouttime, logout_len, logout_len),
                 length |-> st.length],
       after_reboot |-> bo.after_reboot,
       wtmp_start |-> start_update(login_t, ws)]

\* A char pointer: the column it points into and the position in it.
Ptr(k, pos) == <<k, pos>>

\* The test print_entry makes after strtoll (argv[k], &endptr, 10) has
\* returned p, with errno = en: a range error, endptr == argv[1], or a
\* character other than '\0' at endptr.
invalid_time(a, k, p, en) ==
  \/ en = ERANGE /\ (p.val = INT64_MAX \/ p.val = INT64_MIN)
  \/ Ptr(k, p.end) = Ptr(1, 1)
  \/ p.end <= Len(Arg(a, k))

\* errno after a strtoll that has returned p: set on a range error, left as
\* it was otherwise.
errno_after(p, en) == IF p.erange THEN ERANGE ELSE en

\* The warnings one call print_entry (NULL, 8, a, names) writes to stderr,
\* entered with errno = en, and the errno it leaves.
warnings(a, en) ==
  LET login == strtoll(Arg(a, 3))
      e1 == errno_after(login, en)
      w1 == IF invalid_time(a, 3, login, e1)
            THEN <<[field |-> "login", text |-> Arg(a, 3)]>> ELSE <<>>
      closed == Arg(a, 4) # NULL
      logout == IF closed THEN strtoll(Arg(a, 4)) ELSE login
      e2 == IF closed THEN errno_after(logout, e1) ELSE e1
      w2 == IF closed /\ invalid_time(a, 4, logout, e2)
            THEN <<[field |-> "logout", text |-> Arg(a, 4)]>> ELSE <<>>
  IN  [err |-> w1 \o w2, errno |-> e2]

----------------------------------------------------------------------------
(* The storage library (libwtmpdb), by its contract: four operations on    *)
(* the database d at a path.  Each may fail; a failure leaves d as it is.  *)

_PATH_WTMPDB == "/var/lib/wtmpdb/wtmp.db"

login_of(r) == strtoll(r.login).val

\* wtmpdb_login: a new open row; returns its ID, or -1.
wtmpdb_login(d, type, user, login_time, tty, host, service) ==
  {[ret |-> Len(d) + 1,
    db |-> Append(d, Row(type, user, Itoa(login_time), NULL, tty, host,
                         service))],
   [ret |-> -1, db |-> d]}

\* wtmpdb_logout: sets the logout time of the row id; returns 0, or -1.
wtmpdb_logout(d, id, logout_time) ==
  {[ret |-> -1, db |-> d]}
  \cup (IF id \in 1..Len(d)
        THEN {[ret |-> 0, db |-> [d EXCEPT ![id].logout = Itoa(logout_time)]]}
        ELSE {})

\* The open rows of d whose TTY is tty.
OpenIds(d, tty) == {i \in 1..Len(d) : d[i].tty = tty /\ d[i].logout = NULL}

\* wtmpdb_get_id: the ID of the most recent open row whose TTY is tty (the
\* one with the latest login time), or -1.
wtmpdb_get_id(d, tty) ==
  {-1} \cup {i \in OpenIds(d, tty) :
               \A j \in OpenIds(d, tty) : ZLeq(login_of(d[j]), login_of(d[i]))}

\* wtmpdb_read_all: the orders in which the rows of d may be delivered, as
\* sequences of IDs.  The order is the library's.
Orders(d) ==
  {p \in [1..Len(d) -> 1..Len(d)] :
     \A i, j \in 1..Len(d) : p[i] = p[j] => i = j}

Delivery(d, p) == [i \in 1..Len(d) |-> Columns(p[i], d[p[i]])]

----------------------------------------------------------------------------
(* Bounds of the model and the inputs it draws.                            *)

MaxInit == 1      \* rows in a database before the first process runs
MaxStore == 2     \* rows in a database at which no further boot is run
MaxRows == 2      \* rows of a report pass checked on its own

Paths == {_PATH_WTMPDB}

s_alice == <<"a", "l", "i", "c", "e">>
s_tty1 == <<"t", "t", "y", "1">>
s_pts ==
  <<"p", "t", "s", "/", "1", "2", "3", "4", "5", "6", "7", "8", "9", "0">>
s_release == <<"6", ".", "1">>
s_host == <<"h", "o", "s", "t">>

\* What clock_gettime (CLOCK_REALTIME) may report, in microseconds: the
\* clock can be set back between two processes.
Clock == {Usec(0, 100), Usec(3725, 100)}

\* Rows other writers (boots and user sessions of the past) have left.
InitRows ==
  {Row(USER_PROCESS, s_alice, Itoa(Usec(0, 50)), NULL, s_tty1, s_host, NULL),
   Row(BOOT_TIME, s_reboot, Itoa(Usec(0, 100)), Itoa(Usec(60, 0)), s_tilde,
       s_release, NULL),
   Row(RUNLEVEL, s_alice, Itoa(Usec(7, 0)), NULL, s_pts, NULL, NULL)}

\* The rows of the report passes checked on their own: open and closed
\* boots and sessions, a type print_entry does not know, a TTY longer than
\* its column, a boot whose stored TTY is not "~".
PassRows ==
  {Row(BOOT_TIME, s_reboot, Itoa(Usec(0, 100)), NULL, s_tilde, s_release, NULL),
   Row(BOOT_TIME, s_reboot, Itoa(Usec(0, 70)), NULL, s_pts, s_release, NULL),
   Row(BOOT_TIME, s_reboot, Itoa(Usec(0, 20)), Itoa(Usec(0, 30)), s_tilde,
       s_release, NULL),
   Row(USER_PROCESS, s_alice, Itoa(Usec(0, 50)), NULL, s_tty1, s_host, NULL),
   Row(USER_PROCESS, s_alice, Itoa(Usec(0, 10)), Itoa(Usec(3725, 10)), s_pts,
       NULL, NULL),
   Row(RUNLEVEL, s_alice, Itoa(Usec(0, 40)), NULL, s_tty1, NULL, NULL)}

\* Login and logout times of the closed sessions whose duration is checked,
\* in seconds and microseconds: around the minute, the hour and the day,
\* and a time of the present.
DurationTimes ==
  {Usec(0, 0), Usec(0, 999999), Usec(59, 0), Usec(60, 0), Usec(120, 0),
   Usec(3599, 500000), Usec(3600, 0), Usec(3725, 0), Usec(86399, 0),
   Usec(86400, 0), Usec(90125, 0), Usec(8640000, 0), Usec(1700000000, 250000)}

DurationRows ==
  {Row(USER_PROCESS, s_alice, Itoa(t1), Itoa(t2), s_tty1, NULL, NULL) :
     t1 \in DurationTimes, t2 \in DurationTimes}

\* Time texts that are no complete decimal numbers: empty, no digit, 70
\* seconds followed by a letter.
BadTimes ==
  {<<>>, <<"x">>, <<"7", "0", "0", "0", "0", "0", "0", "0", "x">>}

\* Sessions with such a text as their login or their logout time.
TimestampRows ==
  {Row(USER_PROCESS, s_alice, b, lo, s_tty1, NULL, NULL) :
     b \in BadTimes, lo \in {NULL, Itoa(Usec(60, 0))}}
  \cup {Row(USER_PROCESS, s_alice, Itoa(Usec(60, 0)), b, s_tty1, NULL, NULL) :
          b \in BadTimes}

\* A login time beyond int64_t, one that is INT64_MAX itself, and a session
\* from INT64_MIN to INT64_MAX.
s_10_to_19 == <<"1">> \o [i \in 1..19 |-> "0"]
row_beyond == Row(USER_PROCESS, s_alice, s_10_to_19, NULL, s_tty1, NULL, NULL)
row_max == Row(USER_PROCESS, s_alice, Itoa(INT64_MAX), NULL, s_tty1, NULL, NULL)
row_min_max ==
  Row(USER_PROCESS, s_alice, Itoa(INT64_MIN), Itoa(INT64_MAX), s_tty1, NULL,
      NULL)

RECURSIVE SeqsUpTo(_, _)
SeqsUpTo(S, n) ==
  IF n = 0 THEN {<<>>}
  ELSE LET shorter == SeqsUpTo(S, n - 1)
       IN  shorter \cup {Append(q, x) : q \in shorter, x \in S}

\* The databases of the report passes checked on their own.
PassStores ==
  SeqsUpTo(PassRows, MaxRows)
  \cup {<<r>> : r \in DurationRows \cup TimestampRows}
  \cup {<<row_beyond>>, <<row_max>>, <<row_beyond, row_max>>, <<row_min_max>>}

\* The command lines tried: argv[1..].
CmdLines ==
  {<<>>, <<"-h">>, <<"-v">>, <<"-x">>, <<"boot">>, <<"-v", "junk">>,
   <<"last">>, <<"last", "junk">>, <<"last", "-d", _PATH_WTMPDB>>,
   <<"reboot">>, <<"reboot", "-x">>, <<"reboot", "--database">>,
   <<"shutdown">>, <<"shutdown", "junk">>}

----------------------------------------------------------------------------
(* main and the three commands.                                            *)

\* The commands the usage text names.
UsageCommands == {"last", "boot", "shutdown"}

OptionWords == {"-d", "--database", "-h", "--help", "-v", "--version", "-x"}

\* The getopt_long loop of a command ("d:"): the path -d leaves in
\* wtmpdb_path, and whether the loop or the check of argc > optind ends in
\* usage (EXIT_FAILURE).  Words that are no options are passed over by
\* getopt_long and counted afterwards.
RECURSIVE getopt_d(_, _)
getopt_d(args, path) ==
  IF args = <<>> THEN [fail |-> FALSE, path |-> path]
  ELSE IF Head(args) \in {"-d", "--database"}
  THEN IF Len(args) >= 2 THEN getopt_d(SubSeq(args, 3, Len(args)), args[2])
       ELSE [fail |-> TRUE, path |-> path]
  ELSE IF Head(args) \in OptionWords THEN [fail |-> TRUE, path |-> path]
  ELSE [getopt_d(Tail(args), path) EXCEPT !.fail = TRUE]

\* The getopt_long loop of main ("hv") and what follows it: the exit status.
RECURSIVE getopt_hv(_, _)
getopt_hv(args, extra) ==
  IF args = <<>> THEN (IF extra THEN EXIT_FAILURE ELSE EXIT_SUCCESS)
  ELSE IF Head(args) \in {"-h", "--help"} THEN EXIT_SUCCESS
  ELSE IF Head(args) \in {"-v", "--version"} THEN getopt_hv(Tail(args), extra)
  ELSE IF Head(args) \in OptionWords THEN EXIT_FAILURE
  ELSE getopt_hv(Tail(args), TRUE)

\* argv[1], or "" when argc is 1.
Command(args) == IF args = <<>> THEN "" ELSE args[1]

\* A process starts: its statics have their initial values.
Start(args, path) ==
  /\ pc \in {"init", "exited"}
  /\ argv' = args
  /\ wtmpdb_path' = path
  /\ pre' = db
  /\ out' = <<>>
  /\ summary' = <<>>
  /\ err' = <<>>
  /\ errno' = 0

\* exit (st), or main returning st.
Exit(st) == pc' = "exited" /\ status' = st

\* A library call that has returned ret, and one that has not returned.
Call(fn, ret) == [fn |-> fn, returned |-> TRUE, ret |-> ret]
Pending(fn) == [fn |-> fn, returned |-> FALSE, ret |-> 0]

NoClock == time' = Z(FALSE, <<>>)

NoPass ==
  /\ rows' = <<>>
  /\ idx' = 0
  /\ after_reboot' = 0
  /\ wtmp_start' = INT64_MAX

\* usage (retval), reached from a command's option loop.
usage(args, retval) ==
  /\ Start(args, getopt_d(Tail(args), _PATH_WTMPDB).path)
  /\ Exit(retval)
  /\ NoPass
  /\ NoClock
  /\ calls' = <<>>
  /\ UNCHANGED db

\* main when argv[1] names no command: usage, the version, or an error.
main_options(args) ==
  /\ Command(args) \notin {"last", "reboot", "shutdown"}
  /\ Start(args, _PATH_WTMPDB)
  /\ Exit(getopt_hv(args, FALSE))
  /\ NoPass
  /\ NoClock
  /\ calls' = <<>>
  /\ UNCHANGED db

\* main_last up to the call of wtmpdb_read_all, which starts to deliver the
\* rows in an order of its own.
main_last(args) ==
  /\ Command(args) = "last"
  /\ LET o == getopt_d(Tail(args), _PATH_WTMPDB)
     IN  IF o.fail THEN usage(args, EXIT_FAILURE)
         ELSE /\ Start(args, o.path)
              /\ \E p \in Orders(db[o.path]) :
                   rows' = Delivery(db[o.path], p)
              /\ idx' = 0
              /\ after_reboot' = 0
              /\ wtmp_start' = INT64_MAX
              /\ pc' = "read_all"
              /\ calls' = <<Pending("wtmpdb_read_all")>>
              /\ NoClock
              /\ UNCHANGED <<db, status>>

\* The callback is called for the next row, with eight columns.
PrintEntry ==
  /\ pc = "read_all"
  /\ idx < Len(rows)
  /\ LET a == rows[idx + 1]
         closed == Arg(a, 4) # NULL
     IN  \E d \in (IF closed
                   THEN Sub64(strtoll(Arg(a, 4)).val, strtoll(Arg(a, 3)).val)
                   ELSE {[ok |-> TRUE, val |-> Z(FALSE, <<>>)]}) :
           IF d.ok
           THEN LET e == print_entry(a, after_reboot, wtmp_start, d.val)
                IN  /\ out' = Append(out, e.line)
                    /\ after_reboot' = e.after_reboot
                    /\ wtmp_start' = e.wtmp_start
                    /\ idx' = idx + 1
                    /\ UNCHANGED <<pc, status>>
           ELSE /\ Exit(EXIT_FAILURE)
                /\ UNCHANGED <<out, after_reboot, wtmp_start, idx>>
  /\ err' = err \o warnings(rows[idx + 1], errno).err
  /\ errno' = warnings(rows[idx + 1], errno).errno
  /\ UNCHANGED <<db, wtmpdb_path, argv, rows, summary, calls, time, pre>>

\* PrintEntryMangled that prints a line for the entry before it exits.
PrintEntryMangled_prints ==
  /\ pc = "read_all"
  /\ idx < Len(rows)
  /\ out' = Append(out, print_entry(rows[idx + 1], after_reboot, wtmp_start,
                                    Z(FALSE, <<>>)).line)
  /\ Exit(EXIT_FAILURE)
  /\ UNCHANGED <<db, wtmpdb_path, argv, rows, idx, summary, after_reboot,
                 wtmp_start, calls, time, pre, err, errno>>

\* The callback is called with argc != 8: "Mangled entry", exit.
PrintEntryMangled ==
  /\ pc = "read_all"
  /\ idx < Len(rows)
  /\ Exit(EXIT_FAILURE)
  /\ UNCHANGED <<db, wtmpdb_path, argv, rows, idx, out, summary,
                 after_reboot, wtmp_start, calls, time, pre, err, errno>>

\* ReadAllFails with the error dropped: the "begins" line and success.
ReadAllFails_swallowed ==
  /\ pc = "read_all"
  /\ calls' = <<Call("wtmpdb_read_all", -1)>>
  /\ summary' = <<format_time(TIMEFMT_CTIME, ZDiv(wtmp_start, USEC_PER_SEC))>>
  /\ Exit(EXIT_SUCCESS)
  /\ UNCHANGED <<db, wtmpdb_path, argv, rows, idx, out, after_reboot,
                 wtmp_start, time, pre, err, errno>>

\* wtmpdb_read_all returns nonzero: the error message, exit.
ReadAllFails ==
  /\ pc = "read_all"
  /\ calls' = <<Call("wtmpdb_read_all", -1)>>
  /\ Exit(EXIT_FAILURE)
  /\ UNCHANGED <<db, wtmpdb_path, argv, rows, idx, out, summary,
                 after_reboot, wtmp_start, time, pre, err, errno>>

\* wtmpdb_read_all returns 0 after the last row: the "begins" line, unless
\* the process ends in ctime.
LastSummary ==
  /\ pc = "read_all"
  /\ idx = Len(rows)
  /\ calls' = <<Call("wtmpdb_read_all", 0)>>
  /\ \E c \in format_ctime(ZDiv(wtmp_start, USEC_PER_SEC)) :
       IF c.ok
       THEN summary' = <<c.buf>> /\ Exit(EXIT_SUCCESS)
       ELSE summary' = summary /\ Exit(EXIT_FAILURE)
  /\ UNCHANGED <<db, wtmpdb_path, argv, rows, idx, out, after_reboot,
                 wtmp_start, time, pre, err, errno>>

\* main_boot that does not look at what wtmpdb_login returned.
main_boot_ignores_failure(args) ==
  /\ Command(args) = "reboot"
  /\ LET o == getopt_d(Tail(args), _PATH_WTMPDB)
     IN  IF o.fail THEN usage(args, EXIT_FAILURE)
         ELSE /\ Start(args, o.path)
              /\ Len(db[o.path]) < MaxStore
              /\ NoPass
              /\ \E now \in Clock :
                   \E r \in wtmpdb_login(db[o.path], BOOT_TIME, s_reboot, now,
                                         s_tilde, s_release, NULL) :
                     /\ time' = now
                     /\ calls' = <<Call("wtmpdb_login", r.ret)>>
                     /\ db' = [db EXCEPT ![o.path] = r.db]
                     /\ Exit(EXIT_SUCCESS)

\* main_boot that hands wtmpdb_login the time in seconds.
main_boot_seconds(args) ==
  /\ Command(args) = "reboot"
  /\ LET o == getopt_d(Tail(args), _PATH_WTMPDB)
     IN  IF o.fail THEN usage(args, EXIT_FAILURE)
         ELSE /\ Start(args, o.path)
              /\ Len(db[o.path]) < MaxStore
              /\ NoPass
              /\ \E now \in Clock :
                   \E r \in wtmpdb_login(db[o.path], BOOT_TIME, s_reboot,
                                         ZDiv(now, USEC_PER_SEC), s_tilde,
                                         s_release, NULL) :
                     /\ time' = now
                     /\ calls' = <<Call("wtmpdb_login", r.ret)>>
                     /\ db' = [db EXCEPT ![o.path] = r.db]
                     /\ Exit(IF r.ret < 0 THEN EXIT_FAILURE ELSE EXIT_SUCCESS)

\* main_boot: one wtmpdb_login of a BOOT_TIME row at the time of the clock.
main_boot(args) ==
  /\ Command(args) = "reboot"
  /\ LET o == getopt_d(Tail(args), _PATH_WTMPDB)
     IN  IF o.fail THEN usage(args, EXIT_FAILURE)
         ELSE /\ Start(args, o.path)
              /\ Len(db[o.path]) < MaxStore
              /\ NoPass
              /\ \E now \in Clock :
                   \E r \in wtmpdb_login(db[o.path], BOOT_TIME, s_reboot, now,
                                         s_tilde, s_release, NULL) :
                     /\ time' = now
                     /\ calls' = <<Call("wtmpdb_login", r.ret)>>
                     /\ db' = [db EXCEPT ![o.path] = r.db]
                     /\ Exit(IF r.ret < 0 THEN EXIT_FAILURE ELSE EXIT_SUCCESS)

\* main_shutdown without the exit after a failed wtmpdb_get_id.
main_shutdown_no_exit(args) ==
  /\ Command(args) = "shutdown"
  /\ LET o == getopt_d(Tail(args), _PATH_WTMPDB)
     IN  IF o.fail THEN usage(args, EXIT_FAILURE)
         ELSE /\ Start(args, o.path)
              /\ NoPass
              /\ \E id \in wtmpdb_get_id(db[o.path], s_tilde) :
                   \E now \in Clock :
                     \E r \in wtmpdb_logout(db[o.path], id, now) :
                       /\ time' = now
                       /\ calls' = <<Call("wtmpdb_get_id", id),
                                     Call("wtmpdb_logout", r.ret)>>
                       /\ db' = [db EXCEPT ![o.path] = r.db]
                       /\ Exit(IF r.ret < 0 THEN EXIT_FAILURE
                               ELSE EXIT_SUCCESS)

\* main_shutdown that also sets the row's login time to the time of the
\* shutdown.
main_shutdown_stamps_login(args) ==
  /\ Command(args) = "shutdown"
  /\ LET o == getopt_d(Tail(args), _PATH_WTMPDB)
     IN  IF o.fail THEN usage(args, EXIT_FAILURE)
         ELSE /\ Start(args, o.path)
              /\ NoPass
              /\ \E id \in wtmpdb_get_id(db[o.path], s_tilde) :
                   IF id < 0
                   THEN /\ calls' = <<Call("wtmpdb_get_id", id)>>
                        /\ NoClock
                        /\ Exit(EXIT_FAILURE)
                        /\ UNCHANGED db
                   ELSE \E now \in Clock :
                          \E r \in wtmpdb_logout(db[o.path], id, now) :
                            /\ time' = now
                            /\ calls' = <<Call("wtmpdb_get_id", id),
                                          Call("wtmpdb_logout", r.ret)>>
                            /\ db' = [db EXCEPT ![o.path] =
                                        IF r.ret < 0 THEN r.db
                                        ELSE [r.db EXCEPT
                                                ![id].login = Itoa(now)]]
                            /\ Exit(IF r.ret < 0 THEN EXIT_FAILURE
                                    ELSE EXIT_SUCCESS)

\* main_shutdown that logs out the last row of the database, not the row
\* wtmpdb_get_id has found.
main_shutdown_last_row(args) ==
  /\ Command(args) = "shutdown"
  /\ LET o == getopt_d(Tail(args), _PATH_WTMPDB)
     IN  IF o.fail THEN usage(args, EXIT_FAILURE)
         ELSE /\ Start(args, o.path)
              /\ NoPass
              /\ \E id \in wtmpdb_get_id(db[o.path], s_tilde) :
                   IF id < 0
                   THEN /\ calls' = <<Call("wtmpdb_get_id", id)>>
                        /\ NoClock
                        /\ Exit(EXIT_FAILURE)
                        /\ UNCHANGED db
                   ELSE \E now \in Clock :
                          \E r \in wtmpdb_logout(db[o.path], Len(db[o.path]),
                                                 now) :
                            /\ time' = now
                            /\ calls' = <<Call("wtmpdb_get_id", id),
                                          Call("wtmpdb_logout", r.ret)>>
                            /\ db' = [db EXCEPT ![o.path] = r.db]
                            /\ Exit(IF r.ret < 0 THEN EXIT_FAILURE
                                    ELSE EXIT_SUCCESS)

\* main_shutdown: wtmpdb_get_id of "~", then wtmpdb_logout of that ID at the
\* time of the clock.
main_shutdown(args) ==
  /\ Command(args) = "shutdown"
  /\ LET o == getopt_d(Tail(args), _PATH_WTMPDB)
     IN  IF o.fail THEN usage(args, EXIT_FAILURE)
         ELSE /\ Start(args, o.path)
              /\ NoPass
              /\ \E id \in wtmpdb_get_id(db[o.path], s_tilde) :
                   IF id < 0
                   THEN /\ calls' = <<Call("wtmpdb_get_id", id)>>
                        /\ NoClock
                        /\ Exit(EXIT_FAILURE)
                        /\ UNCHANGED db
                   ELSE \E now \in Clock :
                          \E r \in wtmpdb_logout(db[o.path], id, now) :
                            /\ time' = now
                            /\ calls' = <<Call("wtmpdb_get_id", id),
                                          Call("wtmpdb_logout", r.ret)>>
                            /\ db' = [db EXCEPT ![o.path] = r.db]
                            /\ Exit(IF r.ret < 0 THEN EXIT_FAILURE
                                    ELSE EXIT_SUCCESS)

main(args) ==
  \/ main_options(args)
  \/ main_last(args)
  \/ main_boot(args)
  \/ main_shutdown(args)

----------------------------------------------------------------------------
(* The system: processes run one after another on the databases.           *)

Init ==
  /\ db \in [Paths -> SeqsUpTo(InitRows, MaxInit)]
  /\ wtmpdb_path = _PATH_WTMPDB
  /\ pc = "init"
  /\ argv = <<>>
  /\ rows = <<>>
  /\ idx = 0
  /\ out = <<>>
  /\ summary = <<>>
  /\ after_reboot = 0
  /\ wtmp_start = INT64_MAX
  /\ status = EXIT_SUCCESS
  /\ calls = <<>>
  /\ time = Z(FALSE, <<>>)
  /\ pre = db
  /\ err = <<>>
  /\ errno = 0

Next ==
  \/ \E args \in CmdLines : main(args)
  \/ PrintEntry
  \/ PrintEntryMangled
  \/ ReadAllFails
  \/ LastSummary

Spec == Init /\ [][Next]_vars

----------------------------------------------------------------------------
(* The report on its own: "wtmpdb last" run, and run again, on a database  *)
(* that holds any of the rows above.                                       *)

InitPass ==
  /\ db \in [Paths -> PassStores]
  /\ wtmpdb_path = _PATH_WTMPDB
  /\ pc = "init"
  /\ argv = <<>>
  /\ rows = <<>>
  /\ idx = 0
  /\ out = <<>>
  /\ summary = <<>>
  /\ after_reboot = 0
  /\ wtmp_start = INT64_MAX
  /\ status = EXIT_SUCCESS
  /\ calls = <<>>
  /\ time = Z(FALSE, <<>>)
  /\ pre = db
  /\ err = <<>>
  /\ errno = 0

NextPass ==
  \/ main_last(<<"last">>)
  \/ PrintEntry
  \/ PrintEntryMangled
  \/ ReadAllFails
  \/ LastSummary

SpecPass == InitPass /\ [][NextPass]_vars

----------------------------------------------------------------------------
(* Properties of the report pass.  Line i of out is the line of rows[i].   *)

TypeOf(a) == atoi(Arg(a, 1))
IsOpen(a) == Arg(a, 4) = NULL
LoginOf(a) == strtoll(Arg(a, 3)).val
LogoutOf(a) == strtoll(Arg(a, 4)).val
Chars(t) == {t[i] : i \in 1..Len(t)}
Printed == 1..Len(out)

\* The pass has run to its end: every row has its line and the "begins"
\* line is out.
PassComplete ==
  pc = "exited" /\ Command(argv) = "last" /\ summary # <<>>

\* C1: in one pass, once a BOOT_TIME row with no logout time has been
\* printed, every later USER_PROCESS row with no logout time is printed with
\* "crash" in the logout column and an empty duration text, whatever the
\* login times of the two are.
C1_CrashAfterOpenBoot ==
  \A i, j \in Printed :
    (/\ i < j
     /\ TypeOf(rows[i]) = BOOT_TIME /\ IsOpen(rows[i])
     /\ TypeOf(rows[j]) = USER_PROCESS /\ IsOpen(rows[j]))
    => /\ out[j].logouttime.fmt = 0
       /\ out[j].logouttime.text = s_crash
       /\ out[j].length = <<>>

\* An open boot with login 100 printed before an open session with login 50.
C1_Witness ==
  \E i, j \in Printed :
    /\ i < j
    /\ TypeOf(rows[i]) = BOOT_TIME /\ IsOpen(rows[i])
    /\ TypeOf(rows[j]) = USER_PROCESS /\ IsOpen(rows[j])
    /\ LoginOf(rows[i]) = Usec(0, 100) /\ LoginOf(rows[j]) = Usec(0, 50)
    /\ out[j].logouttime.text = s_crash

\* The whole seconds print_entry computes for the closed row a where the
\* subtraction does not overflow.
SecsOf(a) == ZDiv(ZSub(LogoutOf(a), LoginOf(a)), USEC_PER_SEC)

\* C2: for every printed row with both times, the minutes of the duration
\* are in 0..59, the hours in 0..23, and the duration text shows no minus
\* sign, also where the logout time is before the login time.
C2_DurationInRange ==
  \A i \in Printed :
    ~IsOpen(rows[i])
    => /\ mins(SecsOf(rows[i])) \in 0..59
       /\ hours(SecsOf(rows[i])) \in 0..23
       /\ "-" \notin Chars(out[i].length)

\* C6: a BOOT_TIME row is printed with the terminal "system boot" whatever
\* terminal it stores, open or closed, anywhere in the pass; a row of another
\* type with its stored terminal, cut to 12 characters.  The column is 12
\* wide: shorter text is followed by spaces.
C6_BootTerminal ==
  \A i \in Printed :
    LET shown == IF TypeOf(rows[i]) = BOOT_TIME THEN s_system_boot
                 ELSE Arg(rows[i], 5)
        n == IF Len(shown) < 12 THEN Len(shown) ELSE 12
    IN  /\ Len(out[i].tty) = 12
        /\ \A k \in 1..n : out[i].tty[k] = shown[k]
        /\ \A k \in (n + 1)..12 : out[i].tty[k] = " "

\* A boot that stores another terminal than "~", printed after a session
\* whose terminal is longer than the column.
C6_Witness ==
  \E i, j \in Printed :
    /\ i < j
    /\ TypeOf(rows[i]) # BOOT_TIME /\ Len(Arg(rows[i], 5)) > 12
    /\ TypeOf(rows[j]) = BOOT_TIME /\ Arg(rows[j], 5) # s_tilde
    /\ SubSeq(out[j].tty, 1, 11) = s_system_boot

\* The login times of the rows of database d, as print_entry reads them.
Logins(d) == {login_of(d[i]) : i \in 1..Len(d)}

\* C7: after a complete pass over a database that is not empty, wtmp_start
\* is the least login time of its rows, in whatever order they were
\* delivered, in the first pass and in every later pass over the same rows.
C7_EarliestLogin ==
  (PassComplete /\ rows # <<>>)
  => /\ wtmp_start \in Logins(db[wtmpdb_path])
     /\ \A t \in Logins(db[wtmpdb_path]) : ZLeq(wtmp_start, t)

\* A complete pass of two rows in which the earlier login was delivered
\* first, so that the second row does not lower wtmp_start.
C7_Witness ==
  /\ PassComplete
  /\ Len(rows) = 2
  /\ ZLess(LoginOf(rows[1]), LoginOf(rows[2]))
  /\ wtmp_start = LoginOf(rows[1])

\* The duration text the claim describes for secs whole seconds, with C's
\* division and remainder.
C8_Text(secs) ==
  IF days(secs) > 0
  THEN <<"(">> \o FmtD(days(secs)) \o <<"+">> \o Fmt02(hours(secs))
         \o <<":">> \o Fmt02(mins(secs)) \o <<")">>
  ELSE IF hours(secs) > 0
  THEN <<" ", "(">> \o Fmt02(hours(secs)) \o <<":">> \o Fmt02(mins(secs))
         \o <<")">>
  ELSE <<" ", "(", "0", "0", ":">> \o Fmt02(mins(secs)) \o <<")">>

\* C8: the duration text of a closed row is "(D+HH:MM)" if days > 0,
\* otherwise " (HH:MM)" if hours > 0, otherwise " (00:MM)", hours and minutes
\* in two digits.
C8_DurationText ==
  \A i \in Printed :
    ~IsOpen(rows[i])
    => /\ out[i].length = C8_Text(SecsOf(rows[i]))
       /\ \A k \in 1..Len(out[i].length) :
            out[i].length[k] \in Chars(Digits) \cup {"(", ")", "+", ":", " "}

\* The row printed as line j has no logout time and its logout column
\* reads "crash".
Crash(j) ==
  /\ IsOpen(rows[j])
  /\ out[j].logouttime.fmt = 0
  /\ out[j].logouttime.text = s_crash

\* C11, as claimed: a row is printed as "crash" only if a BOOT_TIME row that
\* itself has no logout time was printed before it in the pass.
C11_CrashOnlyAfterOpenBoot ==
  \A j \in Printed :
    Crash(j)
    => \E i \in 1..(j - 1) : TypeOf(rows[i]) = BOOT_TIME /\ IsOpen(rows[i])

\* C11, amended: a row with no logout time is printed as "crash" exactly if
\* some BOOT_TIME row was printed before it in the pass, whether that row
\* has a logout time or not.
C11_CrashIffBootBefore ==
  \A j \in Printed :
    IsOpen(rows[j])
    => (Crash(j) <=> \E i \in 1..(j - 1) : TypeOf(rows[i]) = BOOT_TIME)

\* An open session printed as "crash" after a boot that was shut down in
\* order, and after no other boot.
C11_Witness ==
  \E j \in Printed :
    /\ Crash(j)
    /\ TypeOf(rows[j]) = USER_PROCESS
    /\ \E i \in 1..(j - 1) : TypeOf(rows[i]) = BOOT_TIME
    /\ \A i \in 1..(j - 1) : TypeOf(rows[i]) = BOOT_TIME => ~IsOpen(rows[i])

\* Some BOOT_TIME row was printed before line j.
BootBefore(j) == \E i \in 1..(j - 1) : TypeOf(rows[i]) = BOOT_TIME

\* The logout column and the duration text of line j.
Shows(j, logouttime, length) ==
  /\ out[j].logouttime.fmt = 0
  /\ out[j].logouttime.text = logouttime
  /\ out[j].length = length

\* C13: a row with no logout time printed before every BOOT_TIME row of the
\* pass shows "still" and "logged in" if its type is USER_PROCESS, "still"
\* and "running" if it is BOOT_TIME, "ERROR" and "Unknown: <type>" for any
\* other type; printed after a BOOT_TIME row it shows "crash" and no text,
\* whatever its type.
C13_OpenStatusByType ==
  \A j \in Printed :
    IsOpen(rows[j])
    => IF BootBefore(j) THEN Shows(j, s_crash, <<>>)
       ELSE IF TypeOf(rows[j]) = USER_PROCESS
       THEN Shows(j, s_still, s_logged_in)
       ELSE IF TypeOf(rows[j]) = BOOT_TIME
       THEN Shows(j, s_still, s_running)
       ELSE Shows(j, s_ERROR, s_Unknown \o Arg(rows[j], 1))

\* An open RUNLEVEL row printed as "ERROR", "Unknown: 2", and after it an
\* open boot printed as "still", "running".
C13_Witness ==
  /\ Len(out) = 2
  /\ TypeOf(rows[1]) = RUNLEVEL /\ IsOpen(rows[1])
  /\ Shows(1, s_ERROR, s_Unknown \o <<"2">>)
  /\ TypeOf(rows[2]) = BOOT_TIME /\ IsOpen(rows[2])
  /\ Shows(2, s_still, s_running)

\* The floor of z / d for d > 0.
Floor(z, d) ==
  IF z.neg /\ MagDiv(z.mag, d).r # 0 THEN ZSub(ZDiv(z, d), ZOfInt(1))
  ELSE ZDiv(z, d)

\* C14: for every printed row with both times, the subtraction of the login
\* time from the logout time does not overflow, the whole seconds computed
\* from it are the floor of the difference divided by 1000000, and the
\* duration text is the text of that many seconds.
C14_FloorSeconds ==
  \A i \in Printed :
    ~IsOpen(rows[i])
    => LET diff == ZSub(LogoutOf(rows[i]), LoginOf(rows[i]))
       IN  /\ Sub64(LogoutOf(rows[i]), LoginOf(rows[i]))
                = {[ok |-> TRUE, val |-> diff]}
           /\ ZDiv(diff, USEC_PER_SEC) = Floor(diff, USEC_PER_SEC)
           /\ out[i].length = length_closed(Floor(diff, USEC_PER_SEC))

\* The pass has ended inside wtmpdb_read_all: the callback has left the
\* process, at the row after the idx rows it has printed.
EndedInCallback ==
  /\ pc = "exited" /\ Command(argv) = "last"
  /\ calls = <<Pending("wtmpdb_read_all")>>

\* The least login time of the first n rows delivered; INT64_MAX for none.
EarliestOf(n) ==
  LET S == {INT64_MAX} \cup {LoginOf(rows[i]) : i \in 1..n}
  IN  CHOOSE v \in S : \A w \in S : ZLeq(v, w)

\* C15: when the callback ends the pass at a row, with argc other than 8,
\* the process has failed; the rows delivered before that row have their
\* lines, that row and the rows after it have none, there is no "begins"
\* line, and after_reboot and wtmp_start are what the rows before that row
\* made them.
C15_MalformedAborts ==
  EndedInCallback
  => /\ status = EXIT_FAILURE
     /\ idx < Len(rows)
     /\ Len(out) = idx
     /\ \A i \in 1..idx :
          out[i] = print_entry(rows[i], IF BootBefore(i) THEN 1 ELSE 0,
                               INT64_MAX, ZSub(LogoutOf(rows[i]),
                                               LoginOf(rows[i]))).line
     /\ summary = <<>>
     /\ after_reboot = (IF BootBefore(idx + 1) THEN 1 ELSE 0)
     /\ wtmp_start = EarliestOf(idx)

\* The pass has ended at its second row, a boot with the earlier login
\* time, after the line of the first: the flag and the minimum are without
\* that boot.
C15_Witness ==
  /\ EndedInCallback
  /\ idx = 1 /\ Len(rows) = 2 /\ Len(out) = 1
  /\ TypeOf(rows[2]) = BOOT_TIME
  /\ ZLess(LoginOf(rows[2]), LoginOf(rows[1]))
  /\ after_reboot = 0
  /\ wtmp_start = LoginOf(rows[1])

\* The text s is a decimal integer and nothing else: an optional minus
\* sign and at least one digit.
Complete(s) ==
  LET b == IF s # <<>> /\ s[1] = "-" THEN Tail(s) ELSE s
  IN  b # <<>> /\ \A k \in 1..Len(b) : IsDigit(b[k])

\* A warning for the field with the text s is on stderr.
Warned(field, s) ==
  \E k \in 1..Len(err) : err[k] = [field |-> field, text |-> s]

\* The value the claim has the program use for the time text s.
UsedTime(s) == IF Complete(s) THEN strtoll(s).val ELSE Z(FALSE, <<>>)

\* C16: every row delivered with eight columns has its line, and where its
\* login or logout time text is no complete decimal integer a warning for
\* that field is on stderr and the time used in its place is zero: for the
\* time printed, for the duration and for wtmp_start.
C16_InvalidTimeWarnsZero ==
  \A i \in Printed :
    LET a == rows[i]
        il == ~Complete(Arg(a, 3))
        io == ~IsOpen(a) /\ ~Complete(Arg(a, 4))
    IN  /\ il => /\ Warned("login", Arg(a, 3))
                 /\ out[i].logintime.t = Z(FALSE, <<>>)
                 /\ ZLeq(wtmp_start, Z(FALSE, <<>>))
        /\ io => /\ Warned("logout", Arg(a, 4))
                 /\ out[i].logouttime.t = Z(FALSE, <<>>)
        /\ (il \/ io) /\ ~IsOpen(a)
           => out[i].length
                = length_closed(ZDiv(ZSub(UsedTime(Arg(a, 4)),
                                          UsedTime(Arg(a, 3))),
                                     USEC_PER_SEC))

\* The BOOT_TIME rows printed as "still", "running".
RunningBoots ==
  {j \in Printed :
     TypeOf(rows[j]) = BOOT_TIME /\ Shows(j, s_still, s_running)}

\* C18: in a pass after_reboot, once 1, stays 1; the row being printed is
\* classified by the value after_reboot had before that row; so at most one
\* BOOT_TIME row of a pass is printed as "still", "running", an open one
\* with no BOOT_TIME row before it, and every open BOOT_TIME row after
\* another BOOT_TIME row is printed as "crash".
C18_FlagMonotone ==
  /\ [](/\ Cardinality(RunningBoots) <= 1
        /\ \A j \in RunningBoots : IsOpen(rows[j]) /\ ~BootBefore(j)
        /\ \A j \in Printed :
             (TypeOf(rows[j]) = BOOT_TIME /\ IsOpen(rows[j]) /\ BootBefore(j))
             => Shows(j, s_crash, <<>>))
  /\ [][/\ (pc = "read_all" /\ after_reboot = 1) => after_reboot' = 1
        /\ (pc = "read_all" /\ Len(out') = Len(out) + 1
            /\ IsOpen(rows[Len(out')]))
           => (out'[Len(out')].logouttime.text = s_crash
               <=> after_reboot = 1)]_vars

\* Two open boots printed in one pass: the first as "still", "running", the
\* second as "crash".
C18_Witness ==
  /\ Len(out) = 2
  /\ TypeOf(rows[1]) = BOOT_TIME /\ IsOpen(rows[1])
  /\ TypeOf(rows[2]) = BOOT_TIME /\ IsOpen(rows[2])
  /\ RunningBoots = {1}
  /\ Shows(2, s_crash, <<>>)
  /\ after_reboot = 1

\* C19: when wtmpdb_read_all has returned 0 the report succeeds with one
\* "begins" line, printed after a line for every row and not before; for a
\* database with no rows there is no entry line and the time of the
\* "begins" line is INT64_MAX / USEC_PER_SEC, the initial wtmp_start.
C19_EmptyStoreSummary ==
  /\ pc = "read_all" => summary = <<>>
  /\ (pc = "exited" /\ calls = <<Call("wtmpdb_read_all", 0)>>)
     => /\ status = EXIT_SUCCESS
        /\ Len(summary) = 1
        /\ Len(out) = Len(rows)
        /\ rows = <<>>
           => /\ out = <<>>
              /\ wtmp_start = INT64_MAX
              /\ summary[1] = format_time(TIMEFMT_CTIME,
                                          ZDiv(INT64_MAX, USEC_PER_SEC))

----------------------------------------------------------------------------
(* Properties of the writers and of main.                                  *)

OpenBoots(d) == OpenIds(d, s_tilde)

Exited(cmd) == pc = "exited" /\ Command(argv) = cmd

\* The call failed: wtmpdb_read_all returns nonzero, the others negative.
Failed(c) ==
  c.returned /\ (IF c.fn = "wtmpdb_read_all" THEN c.ret # 0 ELSE c.ret < 0)

\* C3, as claimed: whatever boots and shutdowns have run, at most one row
\* with TTY "~" and no logout time is in the database.
C3_AtMostOneOpenBoot ==
  \A p \in Paths : Cardinality(OpenBoots(db[p])) <= 1

\* C3, amended: a boot that succeeds adds one open "~" row, whether or not
\* one is open already; a shutdown that succeeds closes one; nothing else
\* changes their number.
C3_OpenBootCount ==
  pc = "exited"
  => \A p \in Paths :
       Cardinality(OpenBoots(db[p]))
         = Cardinality(OpenBoots(pre[p]))
           + (IF p = wtmpdb_path /\ status = EXIT_SUCCESS
                 /\ Command(argv) = "reboot" /\ calls # <<>> THEN 1
              ELSE IF p = wtmpdb_path /\ status = EXIT_SUCCESS
                 /\ Command(argv) = "shutdown" /\ calls # <<>> THEN -1
              ELSE 0)

\* A second boot has run with the row of the first still open.
C3_Witness ==
  /\ Exited("reboot")
  /\ status = EXIT_SUCCESS
  /\ Cardinality(OpenBoots(pre[wtmpdb_path])) = 1
  /\ Cardinality(OpenBoots(db[wtmpdb_path])) = 2

\* C4: a boot at time t on a database with no open "~" row, followed at once
\* by a shutdown at time t2 >= t, leaves the database as the boot found it
\* plus one row: BOOT_TIME, user "reboot", TTY "~", login time t, logout time
\* t2.  If t2 - t is under a day the row's duration text has no day count and
\* no minus sign.
C4_RoundTrip ==
  [][(/\ Exited("reboot") /\ status = EXIT_SUCCESS /\ calls # <<>>
      /\ OpenBoots(pre[wtmpdb_path]) = {}
      /\ pc' = "exited" /\ Command(argv') = "shutdown"
      /\ status' = EXIT_SUCCESS /\ calls' # <<>>
      /\ wtmpdb_path' = wtmpdb_path
      /\ ZLeq(time, time'))
     => LET p == wtmpdb_path
            n == Len(pre[p])
            r == db'[p][n + 1]
            text == print_entry(Columns(n + 1, r), 0, INT64_MAX,
                                ZSub(time', time)).line.length
        IN  /\ Len(db'[p]) = n + 1
            /\ SubSeq(db'[p], 1, n) = pre[p]
            /\ r.type = BOOT_TIME /\ r.user = s_reboot /\ r.tty = s_tilde
            /\ strtoll(r.login).val = time
            /\ r.logout # NULL /\ strtoll(r.logout).val = time'
            /\ ZLess(ZSub(time', time), Usec(86400, 0))
               => /\ days(ZDiv(ZSub(time', time), USEC_PER_SEC)) = 0
                  /\ text[1] = " "
                  /\ "-" \notin Chars(text)]_vars

\* A shutdown has closed, 3725 seconds after its login, the only open "~"
\* row, which was the last row of the database.
C4_Witness ==
  LET p == wtmpdb_path
      n == Len(db[p])
  IN  /\ Exited("shutdown") /\ status = EXIT_SUCCESS /\ calls # <<>>
      /\ n > 0
      /\ OpenBoots(pre[p]) = {n}
      /\ strtoll(db[p][n].login).val = Usec(0, 100)
      /\ strtoll(db[p][n].logout).val = Usec(3725, 100)
      /\ time = Usec(3725, 100)

\* The rows boot operations have written: BOOT_TIME rows with TTY "~".
BootIds(d) == {i \in 1..Len(d) : d[i].type = BOOT_TIME /\ d[i].tty = s_tilde}

\* The rows of d2 that differ from the rows of d1, two databases of one
\* length.
Changed(d1, d2) == {i \in 1..Len(d1) : d1[i] # d2[i]}

\* A shutdown has run to its end with success.
ShutdownDone ==
  Exited("shutdown") /\ status = EXIT_SUCCESS /\ calls # <<>>

\* C12, as claimed: a shutdown that succeeds writes its logout time onto the
\* row of the most recent boot operation, the BOOT_TIME "~" row with the
\* highest ID, and onto no other row.
C12_ClosesLatestBoot ==
  ShutdownDone
  => LET p == wtmpdb_path
     IN  /\ Len(db[p]) = Len(pre[p])
         /\ \A i \in Changed(pre[p], db[p]) :
              i \in BootIds(pre[p]) /\ \A j \in BootIds(pre[p]) : j <= i

\* C12, amended: a shutdown that succeeds writes its logout time onto the
\* row wtmpdb_get_id returned, an open "~" row whose login time no other
\* open "~" row exceeds, and changes nothing else; that row need not be the
\* row of the most recent boot.
C12_ClosesLookupResult ==
  ShutdownDone
  => LET p == wtmpdb_path
         id == calls[1].ret
     IN  /\ calls[1].fn = "wtmpdb_get_id"
         /\ id \in OpenBoots(pre[p])
         /\ \A j \in OpenBoots(pre[p]) :
              ZLeq(login_of(pre[p][j]), login_of(pre[p][id]))
         /\ db[p] = [pre[p] EXCEPT ![id].logout = Itoa(time)]

\* The second shutdown after two boots and a shutdown: it has closed the
\* row of the first boot, the row of the second being closed already.
C12_Witness ==
  LET p == wtmpdb_path
  IN  /\ ShutdownDone
      /\ BootIds(pre[p]) = {1, 2}
      /\ pre[p][2].logout # NULL
      /\ pre[p][1].logout = NULL
      /\ db[p][1].logout = Itoa(time)

\* C17: a report changes no database and calls neither wtmpdb_login nor
\* wtmpdb_logout; a boot leaves every row as it was and adds at most one; a
\* shutdown changes at most the logout time of the row whose ID the lookup
\* returned; no process removes a row, moves it to another ID or changes
\* its login time.
C17_FrameEffects ==
  /\ pc = "read_all" => db = pre
  /\ pc = "exited"
     => \A p \in Paths :
          LET n == Len(pre[p])
          IN  /\ Len(db[p]) >= n
              /\ \A i \in 1..n : db[p][i].login = pre[p][i].login
              /\ Command(argv) \notin {"reboot", "shutdown"}
                 => /\ db = pre
                    /\ \A k \in 1..Len(calls) :
                         calls[k].fn \notin {"wtmpdb_login", "wtmpdb_logout"}
              /\ Command(argv) = "reboot"
                 => /\ Len(db[p]) <= n + 1
                    /\ SubSeq(db[p], 1, n) = pre[p]
              /\ Command(argv) = "shutdown"
                 => /\ Len(db[p]) = n
                    /\ \A i \in Changed(pre[p], db[p]) :
                         /\ calls[1] = Call("wtmpdb_get_id", i)
                         /\ pre[p][i] = [db[p][i] EXCEPT
                                           !.logout = pre[p][i].logout]

\* A shutdown has closed the boot row of a database of two rows; the other
\* row, an open session, is as it was.
C17_Witness ==
  LET p == wtmpdb_path
  IN  /\ ShutdownDone
      /\ Len(db[p]) = 2
      /\ Changed(pre[p], db[p]) = {2}
      /\ db[p][1].type = USER_PROCESS /\ db[p][1].logout = NULL

\* C5: when the lookup of "~" by the shutdown returns a negative ID, the
\* process exits with failure, wtmpdb_logout is not called and the database
\* is as it was.
C5_NoOpenBootFails ==
  (Exited("shutdown") /\ calls # <<>> /\ Failed(calls[1]))
  => /\ status = EXIT_FAILURE
     /\ \A k \in 1..Len(calls) : calls[k].fn # "wtmpdb_logout"
     /\ db = pre

\* A shutdown on a database that holds rows, none of them an open "~" row.
C5_Witness ==
  /\ Exited("shutdown") /\ calls # <<>> /\ Failed(calls[1])
  /\ calls[1].fn = "wtmpdb_get_id"
  /\ db[wtmpdb_path] # <<>>
  /\ OpenBoots(db[wtmpdb_path]) = {}

\* C9: a failed library call ends the process with failure: it is the last
\* call made, no call is made twice, and after a failed wtmpdb_read_all no
\* "begins" line is printed.
C9_FailuresPropagate ==
  pc = "exited"
  => /\ \A k \in 1..Len(calls) :
          Failed(calls[k])
          => /\ status = EXIT_FAILURE
             /\ k = Len(calls)
             /\ calls[k].fn = "wtmpdb_read_all" => summary = <<>>
     /\ \A k, l \in 1..Len(calls) : calls[k].fn = calls[l].fn => k = l

\* wtmpdb_read_all has failed after a line was printed.
C9_Witness ==
  /\ Exited("last")
  /\ calls = <<Call("wtmpdb_read_all", -1)>>
  /\ Len(out) >= 1
  /\ status = EXIT_FAILURE

\* C10: a process started with one of the commands the usage text names
\* calls the library; started with "boot" it makes one wtmpdb_login call and,
\* if that succeeds, exits with success, a BOOT_TIME row added.
C10_UsageCommandsDispatched ==
  (pc = "exited" /\ Len(argv) = 1 /\ argv[1] \in UsageCommands)
  => /\ calls # <<>>
     /\ argv[1] = "boot"
        => /\ Len(calls) = 1 /\ calls[1].fn = "wtmpdb_login"
           /\ ~Failed(calls[1])
              => /\ status = EXIT_SUCCESS
                 /\ Len(db[wtmpdb_path]) = Len(pre[wtmpdb_path]) + 1

====
